---- MODULE Spec2Model ----
(***************************************************************************)
(* Symmetry-group generation engine (miratope-core, group/mod.rs).         *)
(*                                                                         *)
(* A Group is an ambient dimension together with a forward-only sequence   *)
(* of matrices.  A value of the model records the elements the iterator    *)
(* has still to yield, in order.                                           *)
(*                                                                         *)
(* Numbers.  The element type is generic over Float.  The model keeps the  *)
(* values exact: a number x is stored as the integer 2x, so the model      *)
(* covers every value that is a multiple of 1/2 (all entries of signed     *)
(* permutation matrices, and the quaternions of the tetrahedral rotation   *)
(* group).  On such values the floating point operations of the code are   *)
(* exact as well.                                                          *)
(***************************************************************************)
EXTENDS Integers, Sequences, FiniteSets, TLC

VARIABLES group, other, seen, seenOther, last, panicked, pc, pulls, drawn,
          polytope, hypersphere, point, subspace, ret

\* The state of a program on the group engine.
groups == <<group, other, seen, seenOther, last, pulls, drawn>>

\* The state of a program on the geometry and the shapes (geometry.rs,
\* polytope/shapes.rs).
geometry == <<polytope, hypersphere, point, subspace, ret>>

vars == <<groups, geometry, panicked, pc>>

---------------------------------------------------------------------------
(* Bounds of the model.                                                    *)

\* Largest dimension handed to a primitive constructor.
MaxDim == 3
\* Largest dimension a combinator is asked to produce.
MaxOutDim == 4
\* Largest number of elements a combinator is asked to produce.
MaxOrder == 8
\* Largest number of single next() calls of a run.
MaxPull == 2
\* Largest exponent handed to the power map of step_hom.
MaxPow == 3

---------------------------------------------------------------------------
(* Float arithmetic, exact on multiples of 1/2.                            *)

\* T::ONE and T::ZERO (x is stored as 2x).
ONE == 2
ZERO == 0

RECURSIVE SeqSum(_)
SeqSum(s) == IF s = <<>> THEN 0 ELSE Head(s) + SeqSum(Tail(s))

\* Sum of the products a[k] * b[k] of two stored sequences, stored again.
Dot(a, b) == SeqSum([k \in 1..Len(a) |-> a[k] * b[k]]) \div ONE

\* Square root of a stored number, defined on the perfect squares 0, 1, 4.
Sqrt(x) ==
    CASE x = 0 -> 0
      [] x = ONE -> ONE
      [] x = 4 * ONE -> 2 * ONE
      [] OTHER -> -1

IsSquare(x) == Sqrt(x) >= 0

---------------------------------------------------------------------------
(* Matrices: a d x d matrix is a sequence of d rows of d stored numbers.   *)

nrows(m) == Len(m)

\* The result of an operation that aborts when it is evaluated (a matrix
\* product of operands of different shapes): the abort happens when the
\* element is pulled from the iterator that holds it.
Poison == << <<>> >>

IsPoison(m) == m = Poison

HasPoison(s) == \E p \in 1..Len(s) : IsPoison(s[p])

\* Matrix::identity(dim, dim)
identity(dim) ==
    [i \in 1..dim |-> [j \in 1..dim |-> IF i = j THEN ONE ELSE ZERO]]

\* -m
neg(m) == [i \in 1..Len(m) |-> [j \in 1..Len(m[i]) |-> 0 - m[i][j]]]

\* a * b : aborts unless the shapes agree.
mul(a, b) ==
    IF IsPoison(a) \/ IsPoison(b) \/ Len(a) # Len(b)
    THEN Poison
    ELSE [i \in 1..Len(a) |-> [j \in 1..Len(b) |->
             Dot(a[i], [k \in 1..Len(b) |-> b[k][j]])]]

RECURSIVE pow(_, _)
\* mat.pow(d): the d-th power by repeated multiplication.
pow(m, d) == IF d = 0 THEN identity(Len(m)) ELSE mul(pow(m, d - 1), m)

minor(m, j) ==
    [i \in 1..(Len(m) - 1) |-> [c \in 1..(Len(m) - 1) |->
        m[i + 1][IF c < j THEN c ELSE c + 1]]]

RECURSIVE determinant(_)
\* el.determinant(), by expansion along the first row.  The result is in
\* units of 1/2^d: its sign, which is all the code reads, is the sign of
\* the determinant.  The determinant of the 0 x 0 matrix is one.
determinant(m) ==
    IF Len(m) = 0 THEN 1
    ELSE IF Len(m) = 1 THEN m[1][1]
    ELSE SeqSum([j \in 1..Len(m) |->
            IF m[1][j] = 0 THEN 0
            ELSE (IF j % 2 = 1 THEN 1 ELSE -1) * m[1][j]
                     * determinant(minor(m, j))])

direct_sum_swapped(mat1, mat2) ==
    LET dim1 == nrows(mat1)
        dim == dim1 + nrows(mat2)
    IN  [i \in 1..dim |-> [j \in 1..dim |->
            IF i <= dim1
            THEN IF j <= dim1 THEN mat1[j][i] ELSE ZERO
            ELSE IF j > dim1 THEN mat2[i - dim1][j - dim1] ELSE ZERO]]

\* direct_sum(mat1, mat2): indices are 1-based here, 0-based in the code.
direct_sum(mat1, mat2) ==
    LET dim1 == nrows(mat1)
        dim == dim1 + nrows(mat2)
    IN  [i \in 1..dim |-> [j \in 1..dim |->
            IF i <= dim1
            THEN IF j <= dim1 THEN mat1[i][j] ELSE ZERO
            ELSE IF j > dim1 THEN mat2[i - dim1][j - dim1] ELSE ZERO]]

---------------------------------------------------------------------------
(* Pairs: the Cartesian product of two collected lists.                    *)

into_pairs_second_fastest(A, B) ==
    [p \in 1..(Len(A) * Len(B)) |->
        <<A[((p - 1) \div Len(B)) + 1], B[((p - 1) % Len(B)) + 1]>>]

RECURSIVE PairsWith(_, _)
\* All of A paired with one element b, in the order of A.
PairsWith(A, b) ==
    IF A = <<>> THEN <<>> ELSE <<<<Head(A), b>>>> \o PairsWith(Tail(A), b)

RECURSIVE into_pairs(_, _)
\* (A, B).into_pairs(): all of A with B[0], then all of A with B[1], ...
into_pairs(A, B) ==
    IF B = <<>> THEN <<>> ELSE PairsWith(A, Head(B)) \o into_pairs(A, Tail(B))

---------------------------------------------------------------------------
(* Quaternions: records [w, i, j, k] of stored numbers.                    *)

Quat(w, i, j, k) == [w |-> w, i |-> i, j |-> j, k |-> k]

\* a / b on stored numbers.
Div(a, b) == (a * ONE) \div b

DivExact(a, b) == b # 0 /\ (a * ONE) % b = 0

\* The radicand UnitQuaternion::from_rotation_matrix takes the root of.
QuatRadicand(m) ==
    LET tr == m[1][1] + m[2][2] + m[3][3]
    IN  IF tr > ZERO THEN tr + ONE
        ELSE IF m[1][1] > m[2][2] /\ m[1][1] > m[3][3]
             THEN ONE + m[1][1] - m[2][2] - m[3][3]
        ELSE IF m[2][2] > m[3][3]
             THEN ONE + m[2][2] - m[1][1] - m[3][3]
        ELSE ONE + m[3][3] - m[1][1] - m[2][2]

\* mat_to_quat(mat): the unit quaternion of the top-left 3 x 3 block, by the
\* trace method (four cases on the trace and the largest diagonal entry).
mat_to_quat(m) ==
    LET tr == m[1][1] + m[2][2] + m[3][3]
        denom == Sqrt(QuatRadicand(m)) * 2
        quarter == denom \div 4
    IN  IF tr > ZERO
        THEN Quat(quarter,
                  Div(m[3][2] - m[2][3], denom),
                  Div(m[1][3] - m[3][1], denom),
                  Div(m[2][1] - m[1][2], denom))
        ELSE IF m[1][1] > m[2][2] /\ m[1][1] > m[3][3]
        THEN Quat(Div(m[3][2] - m[2][3], denom),
                  quarter,
                  Div(m[1][2] + m[2][1], denom),
                  Div(m[1][3] + m[3][1], denom))
        ELSE IF m[2][2] > m[3][3]
        THEN Quat(Div(m[1][3] - m[3][1], denom),
                  Div(m[1][2] + m[2][1], denom),
                  quarter,
                  Div(m[2][3] + m[3][2], denom))
        ELSE Quat(Div(m[2][1] - m[1][2], denom),
                  Div(m[1][3] + m[3][1], denom),
                  Div(m[2][3] + m[3][2], denom),
                  quarter)

\* The matrices whose quaternion the model computes exactly: the root is
\* that of a perfect square and every quotient is a multiple of 1/2.
QuatExact(m) ==
    /\ ~IsPoison(m)
    /\ Len(m) >= 3
    /\ IsSquare(QuatRadicand(m))
    /\ LET denom == Sqrt(QuatRadicand(m)) * 2
       IN  /\ denom # 0
           /\ denom % 4 = 0
           /\ \A a \in 1..3 : \A b \in 1..3 :
                 /\ DivExact(m[a][b] - m[b][a], denom)
                 /\ DivExact(m[a][b] + m[b][a], denom)

\* The positions of the elements of a group outside that domain.
Inexact(g) == {p \in 1..Len(g.iter) : ~QuatExact(g.iter[p])}

\* q * r, the Hamilton product.
qmul(q, r) ==
    Quat(Dot(<<q.w, 0 - q.i, 0 - q.j, 0 - q.k>>, <<r.w, r.i, r.j, r.k>>),
         Dot(<<q.w, q.i, q.j, 0 - q.k>>, <<r.i, r.w, r.k, r.j>>),
         Dot(<<q.w, 0 - q.i, q.j, q.k>>, <<r.j, r.k, r.w, r.i>>),
         Dot(<<q.w, q.i, 0 - q.j, q.k>>, <<r.k, r.j, r.i, r.w>>))

\* The four quaternions q, q * i, q * j, q * k of mat_from_quats.  An array
\* [x, y, z, w] converts to the quaternion with i = x, j = y, k = z, w = w.
QuatBasis(q) ==
    << q,
       Quat(0 - q.i, q.w, q.k, 0 - q.j),
       Quat(0 - q.j, 0 - q.k, q.w, q.i),
       Quat(0 - q.k, q.j, 0 - q.i, q.w) >>

\* mat_from_quats(q, r): the 4 x 4 matrix filled column by column (the
\* order of Matrix::from_iterator) with the coordinates w, i, j, k of
\* (q * e) * r for e = 1, i, j, k.
mat_from_quats(q, r) ==
    LET cols == [c \in 1..4 |->
                    LET p == qmul(QuatBasis(q)[c], r)
                    IN  <<p.w, p.i, p.j, p.k>>]
    IN  [row \in 1..4 |-> [col \in 1..4 |-> cols[col][row]]]

---------------------------------------------------------------------------
(* Groups: [dim, iter], iter the elements still to be yielded.             *)

\* Group::new(dim, iter)
new(dim, iter) == [dim |-> dim, iter |-> iter]

\* A binding that holds no group (never bound, or moved into a combinator).
Moved == [dim |-> -1, iter |-> <<>>]

IsBound(g) == g.dim >= 0

\* self.collect::<Vec<_>>(): every remaining element, in order.
collect(self) == self.iter

\* The elements of self a closure handed to iso or sub is applied to: an
\* element whose evaluation aborts never reaches the closure.
Items(self) == {self.iter[p] : p \in 1..Len(self.iter)} \ {Poison}

\* Group::iso(self, dim, f): iter.map(f); f runs as elements are pulled.
\* The closure f is given as a function on Items(self).
iso(self, dim, f) ==
    new(dim, [p \in 1..Len(self.iter) |->
                IF IsPoison(self.iter[p]) THEN Poison ELSE f[self.iter[p]]])

\* Group::sub(self, f): iter.filter(f), under the dimension of self.
sub(self, f) ==
    new(self.dim, SelectSeq(self.iter, LAMBDA el : IsPoison(el) \/ f[el]))

cache_reversed(self) ==
    new(self.dim, [p \in 1..Len(self.iter) |->
                      self.iter[Len(self.iter) + 1 - p]])

\* Group::cache(self)
cache(self) == new(self.dim, collect(self))

\* The 0-based position of the first element of vec equal to m, or -1.
IndexOf(vec, m) ==
    IF \E p \in 1..Len(vec) : vec[p] = m
    THEN (CHOOSE p \in 1..Len(vec) :
             vec[p] = m /\ \A q \in 1..(p - 1) : vec[q] # m) - 1
    ELSE -1

\* PermutationIter::new(vec): one permutation of the positions of vec for
\* each of its elements, that of the products of the element by every
\* element.
PermutationIter(vec) ==
    [p \in 1..Len(vec) |->
        [q \in 1..Len(vec) |-> IndexOf(vec, mul(vec[p], vec[q]))]]

permutations_of_dim(self) ==
    new(self.dim, PermutationIter(collect(self)))

\* Group::permutations(self): the dimension is the number of elements
\* collected.
permutations(self) ==
    new(Len(collect(self)), PermutationIter(collect(self)))

trivial_empty(dim) == new(dim, <<>>)

\* Group::trivial(dim)
trivial(dim) == new(dim, <<identity(dim)>>)

\* Group::two(dim, gen)
two(dim, gen) == new(dim, <<identity(dim), gen>>)

central_inv_one_axis(dim) ==
    two(dim, [i \in 1..dim |-> [j \in 1..dim |->
                 IF i = j THEN (IF i = 1 THEN 0 - ONE ELSE ONE) ELSE ZERO]])

\* Group::central_inv(dim), past its assertion
central_inv(dim) == two(dim, neg(identity(dim)))

\* Group::reflection_at(dim, idx), past its assertion; idx counts from 0.
reflection_at(dim, idx) ==
    two(dim, [identity(dim) EXCEPT ![idx + 1][idx + 1] = 0 - ONE])

rotations_nonnegative(self) ==
    sub(self, [el \in Items(self) |-> determinant(el) >= ZERO])

\* Group::rotations(self)
rotations(self) == sub(self, [el \in Items(self) |-> determinant(el) > ZERO])

matrix_product_reversed(self, g) ==
    LET pairs == into_pairs(collect(self), collect(g))
    IN  new(self.dim, [p \in 1..Len(pairs) |-> mul(pairs[p][2], pairs[p][1])])

\* Group::matrix_product(self, g): into_pairs().map(|a, b| a * b)
matrix_product_second_dim(self, g) ==
    LET pairs == into_pairs(collect(self), collect(g))
    IN  new(g.dim, [p \in 1..Len(pairs) |-> mul(pairs[p][1], pairs[p][2])])

matrix_product(self, g) ==
    LET pairs == into_pairs(collect(self), collect(g))
    IN  new(self.dim, [p \in 1..Len(pairs) |-> mul(pairs[p][1], pairs[p][2])])

\* Group::with_central_inv(self)
with_central_inv(self) == matrix_product(self, central_inv(self.dim))

\* Group::with_reflection_at(self, idx)
with_reflection_at(self, idx) ==
    matrix_product(self, reflection_at(self.dim, idx))

direct_product_first_dim(self, g) ==
    LET pairs == into_pairs(collect(self), collect(g))
    IN  new(self.dim,
            [p \in 1..Len(pairs) |-> direct_sum(pairs[p][1], pairs[p][2])])

\* Group::direct_product(self, g): into_pairs().map(direct_sum)
direct_product(self, g) ==
    LET pairs == into_pairs(collect(self), collect(g))
    IN  new(self.dim + g.dim,
            [p \in 1..Len(pairs) |-> direct_sum(pairs[p][1], pairs[p][2])])

pad_in_front(self, dim) == direct_product(trivial(dim), self)

\* Group::pad(self, dim)
pad(self, dim) == direct_product(self, trivial(dim))

RECURSIVE Flatten(_)
\* Iterator::flatten on a sequence of arrays
Flatten(ss) == IF ss = <<>> THEN <<>> ELSE Head(ss) \o Flatten(Tail(ss))

\* The homomorphisms handed to swirl_hom, by name: the constant map of
\* swirl, and the map that reads the first entry of the matrix.
HomNames == {"unit", "m00"}

Hom(name, mat) ==
    CASE name = "unit" -> 0
      [] name = "m00" -> mat[1][1]

swirl_hom_positive_first(self, g, alpha, beta) ==
    LET left == [p \in 1..Len(self.iter) |->
                   <<Hom(alpha, self.iter[p]), mat_to_quat(self.iter[p])>>]
        right == [p \in 1..Len(g.iter) |->
                   <<Hom(beta, g.iter[p]), mat_to_quat(g.iter[p])>>]
        pairs == into_pairs(left, right)
        kept == SelectSeq(pairs, LAMBDA pr : pr[1][1] = pr[2][1])
    IN  new(4, Flatten([p \in 1..Len(kept) |->
                   LET prod == mat_from_quats(kept[p][1][2], kept[p][2][2])
                   IN  <<prod, neg(prod)>>]))

\* Group::swirl_hom(self, g, alpha, beta), past its assertions.
swirl_hom(self, g, alpha, beta) ==
    LET left == [p \in 1..Len(self.iter) |->
                   <<Hom(alpha, self.iter[p]), mat_to_quat(self.iter[p])>>]
        right == [p \in 1..Len(g.iter) |->
                   <<Hom(beta, g.iter[p]), mat_to_quat(g.iter[p])>>]
        pairs == into_pairs(left, right)
        kept == SelectSeq(pairs, LAMBDA pr : pr[1][1] = pr[2][1])
    IN  new(4, Flatten([p \in 1..Len(kept) |->
                   LET prod == mat_from_quats(kept[p][1][2], kept[p][2][2])
                   IN  <<neg(prod), prod>>]))

swirl_first_entry(self, g) == swirl_hom(self, g, "m00", "m00")

\* Group::swirl(self, g)
swirl(self, g) == swirl_hom(self, g, "unit", "unit")

step_hom_image_first(self, d) ==
    iso(self, 2 * self.dim,
        [mat \in Items(self) |-> direct_sum(pow(mat, d), mat)])

\* Group::step_hom(self, f) for f the d-th power, the map of tests::step.
step_hom(self, d) ==
    iso(self, 2 * self.dim,
        [mat \in Items(self) |-> direct_sum(mat, pow(mat, d))])

---------------------------------------------------------------------------
(* Generators whose code lies outside group/mod.rs.                        *)

\* Most powers the cyclic generator is followed for.
CyclicCap == 8

RECURSIVE Powers(_, _, _)
\* Cyclic: cur, cur * gen, ... up to the return to the identity.
Powers(gen, cur, fuel) ==
    <<cur>> \o
    (IF fuel = 0 \/ mul(cur, gen) = identity(Len(gen))
     THEN <<>> ELSE Powers(gen, mul(cur, gen), fuel - 1))

cyclic_gen_unending(dim, gen) ==
    new(dim, [p \in 1..(CyclicCap + 1) |-> pow(gen, p - 1)])

\* Group::cyclic_gen(dim, gen)
cyclic_gen(dim, gen) == new(dim, Powers(gen, identity(Len(gen)), CyclicCap))

\* The orders n for which sin and cos of 2 pi / n are multiples of 1/2.
CyclicOrders == {1, 2, 4}

\* (T::TAU / T::u32(n)).fsin_cos(), as the pair <<sin, cos>>
fsin_cos(n) ==
    CASE n = 1 -> <<ZERO, ONE>>
      [] n = 2 -> <<ZERO, 0 - ONE>>
      [] n = 4 -> <<ONE, ZERO>>

\* Group::cyclic(n)
cyclic(n) ==
    LET s == fsin_cos(n)[1]
        c == fsin_cos(n)[2]
    IN  cyclic_gen(2, << <<c, 0 - s>>, <<s, c>> >>)

RECURSIVE Expand(_, _, _)
\* GenIter: the closure of the generators, breadth first from the identity.
\* Each element found is multiplied by each generator in turn, and a product
\* not found before is added at the end.
Expand(gens, elems, frontier) ==
    IF frontier = <<>> THEN elems
    ELSE LET n == Len(gens)
             cands == [c \in 1..(Len(frontier) * n) |->
                          mul(frontier[((c - 1) \div n) + 1],
                              gens[((c - 1) % n) + 1])]
             IsNew(c) ==
                 /\ \A p \in 1..Len(elems) : elems[p] # cands[c]
                 /\ \A d \in 1..(c - 1) : cands[d] # cands[c]
             picked == SelectSeq([c \in 1..Len(cands) |-> c], IsNew)
             fresh == [q \in 1..Len(picked) |-> cands[picked[q]]]
         IN  Expand(gens, elems \o fresh, fresh)

\* The three mirrors of the diagram "o3o3o", in the coordinates in which the
\* tetrahedron has the vertices (1,1,1), (1,-1,-1), (-1,1,-1), (-1,-1,1).
A3Gens ==
    << << <<ZERO, ONE, ZERO>>, <<ONE, ZERO, ZERO>>, <<ZERO, ZERO, ONE>> >>,
       << <<ONE, ZERO, ZERO>>, <<ZERO, ZERO, ONE>>, <<ZERO, ONE, ZERO>> >>,
       << <<ZERO, 0 - ONE, ZERO>>, <<0 - ONE, ZERO, ZERO>>,
          <<ZERO, ZERO, ONE>> >> >>

\* Group::parse_unwrap("o3o3o"), which is also Group::simplex(3)
simplex3 == new(3, Expand(A3Gens, <<identity(3)>>, <<identity(3)>>))

dihedral_2_central(n) == with_central_inv(cyclic(n))

\* The mirrors of the diagram of the hypercube of rank n: the exchange of
\* the coordinates i and i + 1, and the reflection of the last coordinate.
HypercubeGens(n) ==
    [m \in 1..n |->
        [i \in 1..n |-> [j \in 1..n |->
            IF m < n
            THEN (IF (i = m /\ j = m + 1) \/ (i = m + 1 /\ j = m)
                     \/ (i = j /\ i # m /\ i # m + 1)
                  THEN ONE ELSE ZERO)
            ELSE (IF i # j THEN ZERO ELSE IF i = n THEN 0 - ONE ELSE ONE)]]]

hypercube_unsigned(n) ==
    new(n, Expand(SubSeq(HypercubeGens(n), 1, n - 1), <<identity(n)>>,
                  <<identity(n)>>))

\* Group::hypercube(n)
hypercube(n) ==
    new(n, Expand(HypercubeGens(n), <<identity(n)>>, <<identity(n)>>))

\* Group::dihedral_2(n)
dihedral_2(n) == with_reflection_at(cyclic(n), 0)

\* Group::dihedral_3(n)
dihedral_3(n) == with_reflection_at(pad(cyclic(n), 1), 2)

\* The diagram strings handed to Group::parse.
Diagrams == {"", "o", "o2o", "o4o", "o3o3o", "o3o4o", "o3", "3o", "o?o"}

\* The characters of a diagram string.
DiagramChars ==
    [d \in Diagrams |->
        CASE d = "" -> <<>>
          [] d = "o" -> <<"o">>
          [] d = "o2o" -> <<"o", "2", "o">>
          [] d = "o4o" -> <<"o", "4", "o">>
          [] d = "o3o3o" -> <<"o", "3", "o", "3", "o">>
          [] d = "o3o4o" -> <<"o", "3", "o", "4", "o">>
          [] d = "o3" -> <<"o", "3">>
          [] d = "3o" -> <<"3", "o">>
          [] d = "o?o" -> <<"o", "?", "o">>]

\* A linear diagram: nodes joined by branches with a label of 2, 3 or 4, or
\* nothing at all.
WellFormed(cs) ==
    \/ cs = <<>>
    \/ /\ Len(cs) % 2 = 1
       /\ \A p \in 1..Len(cs) :
             IF p % 2 = 1 THEN cs[p] = "o" ELSE cs[p] \in {"2", "3", "4"}

\* The mirrors of a well-formed diagram with at least one node.
DiagramGens(cs) ==
    LET labels == [b \in 1..(Len(cs) \div 2) |-> cs[2 * b]]
    IN  CASE labels = <<>> -> << << <<0 - ONE>> >> >>
          [] labels = <<"2">> -> << << <<0 - ONE, ZERO>>, <<ZERO, ONE>> >>,
                                    << <<ONE, ZERO>>, <<ZERO, 0 - ONE>> >> >>
          [] labels = <<"4">> -> HypercubeGens(2)
          [] labels = <<"3", "3">> -> A3Gens
          [] labels = <<"3", "4">> -> HypercubeGens(3)

\* GenIter::parse(input): Ok(Some(gens)), Ok(None) or Err(error)
GenIterParse(input) ==
    LET cs == DiagramChars[input]
    IN  IF ~WellFormed(cs) THEN [tag |-> "Err", dim |-> -1, gens |-> <<>>]
        ELSE IF cs = <<>> THEN [tag |-> "None", dim |-> -1, gens |-> <<>>]
        ELSE [tag |-> "Some", dim |-> (Len(cs) + 1) \div 2,
              gens |-> DiagramGens(cs)]

parse_partial(input) ==
    LET r == GenIterParse(input)
    IN  [tag |-> r.tag,
         group |-> IF r.tag = "Some"
                   THEN new(r.dim, Expand(r.gens, <<identity(r.dim)>>,
                                          <<identity(r.dim)>>))
                   ELSE new(0, <<identity(0)>>)]

\* Group::parse(input): the generators, where there are any, become a group
parse(input) ==
    LET r == GenIterParse(input)
    IN  [tag |-> r.tag,
         group |-> IF r.tag = "Some"
                   THEN new(r.dim, Expand(r.gens, <<identity(r.dim)>>,
                                          <<identity(r.dim)>>))
                   ELSE Moved]

---------------------------------------------------------------------------
(* The state.  A run is one program against the library: it builds a group *)
(* with a constructor (pc = "built"), may pull elements from it, clone it  *)
(* and take its rotations, hands it to one combinator (pc = "combined"),   *)
(* and then tests the result the way tests::test does: it caches it        *)
(* (pc = "cached"), clones the cache (pc = "cloned"), iterates the clone   *)
(* and the original, and takes the rotations (pc = "rotated").             *)
(*   group, other   the two bindings that hold groups                      *)
(*   seen, seenOther   the elements next() has yielded from each           *)
(*   last           the last call and the arguments it was given           *)
(*   panicked       whether the program has aborted                        *)
(*   pulls          the number of single next() calls made so far          *)
(*   drawn          the number of elements the last call pulled from the   *)
(*                  groups handed to it, before it returned or aborted     *)

Call(op, self, g, k, alpha, beta) ==
    [op |-> op, self |-> self, g |-> g, k |-> k, alpha |-> alpha,
     beta |-> beta]

\* A binding of the geometry that holds nothing yet.
NoValue == [none |-> TRUE]

Init ==
    /\ group = Moved
    /\ other = Moved
    /\ seen = <<>>
    /\ seenOther = <<>>
    /\ last = Call("none", Moved, Moved, -1, "", "")
    /\ panicked = FALSE
    /\ pc = "start"
    /\ pulls = 0
    /\ drawn = 0
    /\ polytope = NoValue
    /\ hypersphere = NoValue
    /\ point = NoValue
    /\ subspace = NoValue
    /\ ret = NoValue

\* let group = <constructor>
Bind(call, val) ==
    /\ ~panicked
    /\ pc = "start"
    /\ group' = val
    /\ last' = call
    /\ pc' = "built"
    /\ UNCHANGED <<geometry, other, seen, seenOther, panicked, pulls, drawn>>

\* A failed assertion: the call never returns, and has pulled nothing.
Abort(call) ==
    /\ panicked' = TRUE
    /\ last' = call
    /\ drawn' = 0
    /\ UNCHANGED <<geometry, group, other, seen, seenOther, pc, pulls>>

\* A panic while the n-th element pulled is evaluated.
AbortPulling(call, n) ==
    /\ panicked' = TRUE
    /\ last' = call
    /\ drawn' = n
    /\ UNCHANGED <<geometry, group, other, seen, seenOther, pc, pulls>>

\* The calls whose body collects the groups handed to it: cache and
\* permutations, the calls on into_pairs, and the calls defined by them.
Collecting ==
    {"cache", "permutations", "pad", "matrix_product", "with_central_inv",
     "with_reflection_at", "direct_product", "swirl", "swirl_hom"}

\* The number of elements collect() pulls from s: all of them, or the
\* elements up to the first whose evaluation aborts.
Taken(s) ==
    IF HasPoison(s)
    THEN CHOOSE p \in 1..Len(s) :
            IsPoison(s[p]) /\ \A q \in 1..(p - 1) : ~IsPoison(s[q])
    ELSE Len(s)

\* The call aborts while it collects: self is collected first, then g.
Panics(call) ==
    /\ call.op \in Collecting
    /\ \/ HasPoison(call.self.iter)
       \/ IsBound(call.g) /\ HasPoison(call.g.iter)

DrawnFromSelf(call) ==
    IF call.op \in Collecting THEN Taken(call.self.iter) ELSE 0

\* The number of elements the call pulls from self and g before it returns
\* or aborts.
Drawn(call) ==
    IF call.op \in Collecting
    THEN Taken(call.self.iter)
            + (IF IsBound(call.g) /\ ~HasPoison(call.self.iter)
               THEN Taken(call.g.iter) ELSE 0)
    ELSE 0

\* self.f(): the group is moved into the call and the result is bound.
Unary(call, result, to) ==
    IF Panics(call)
    THEN AbortPulling(call, Drawn(call))
    ELSE /\ group' = result
         /\ seen' = <<>>
         /\ last' = call
         /\ drawn' = Drawn(call)
         /\ pc' = to
         /\ UNCHANGED <<geometry, other, seenOther, panicked, pulls>>

\* self.f(g): both groups are moved into the call; g is the clone held by
\* the other binding, or a group built in the argument position.
Binary(call, result, to) ==
    IF Panics(call)
    THEN AbortPulling(call, Drawn(call))
    ELSE /\ group' = result
         /\ seen' = <<>>
         /\ IF call.g = other
            THEN other' = Moved /\ seenOther' = <<>>
            ELSE UNCHANGED <<other, seenOther>>
         /\ last' = call
         /\ drawn' = Drawn(call)
         /\ pc' = to
         /\ UNCHANGED <<geometry, panicked, pulls>>

---------------------------------------------------------------------------
(* Constructors.                                                           *)

\* The iterators handed to Group::new directly.  Nothing is checked of
\* them: the second and the third hold a matrix of determinant zero, and the
\* last two an element whose evaluation aborts.
NewInputs ==
    { new(2, <<identity(2), Poison>>),
      new(3, <<Poison, identity(3)>>),
      new(1, << << <<ONE>> >>, << <<0 - ONE>> >> >>),
      new(1, << << <<ZERO>> >>, << <<ONE>> >>, << <<0 - ONE>> >> >>),
      new(2, << << <<ONE, ONE>>, <<ONE, ONE>> >>,
                << <<ZERO, ONE>>, <<ONE, ZERO>> >>,
                identity(2) >>) }

\* unsafe { Group::new(dim, iter) }
New(g) == Bind(Call("new", Moved, Moved, g.dim, "", ""), new(g.dim, g.iter))

Trivial(n) == Bind(Call("trivial", Moved, Moved, n, "", ""), trivial(n))

\* assert!(dim >= 1)
CentralInv(n) ==
    IF n >= 1
    THEN Bind(Call("central_inv", Moved, Moved, n, "", ""), central_inv(n))
    ELSE /\ ~panicked
         /\ pc = "start"
         /\ Abort(Call("central_inv", Moved, Moved, n, "", ""))

\* assert!(dim >= 1), and the write at (idx, idx) is bounds-checked
ReflectionAt(n, idx) ==
    IF n >= 1 /\ idx < n
    THEN Bind(Call("reflection_at", Moved, Moved, n, "", ""),
              reflection_at(n, idx))
    ELSE /\ ~panicked
         /\ pc = "start"
         /\ Abort(Call("reflection_at", Moved, Moved, n, "", ""))

\* The generators handed to Group::cyclic_gen: of the orders 2, 4, 2 and 1,
\* and two that never return to the identity.
CyclicGens ==
    << << <<0 - ONE>> >>,
       << <<ZERO, 0 - ONE>>, <<ONE, ZERO>> >>,
       << <<ZERO, ONE>>, <<ONE, ZERO>> >>,
       identity(2),
       << <<ONE, ONE>>, <<ZERO, ONE>> >>,
       << <<ZERO>> >> >>

CyclicGen(k) ==
    Bind(Call("cyclic_gen", Moved, Moved, k, "", ""),
         cyclic_gen(Len(CyclicGens[k]), CyclicGens[k]))

Cyclic(n) == Bind(Call("cyclic", Moved, Moved, n, "", ""), cyclic(n))

Simplex == Bind(Call("simplex", Moved, Moved, 3, "", ""), simplex3)

Hypercube(n) == Bind(Call("hypercube", Moved, Moved, n, "", ""), hypercube(n))

\* let parsed = Group::parse(input): the program goes on with the group, or
\* without one.
Parse(input) ==
    /\ ~panicked
    /\ pc = "start"
    /\ LET r == parse(input)
           call == Call("parse", Moved, Moved, -1, input, r.tag)
       IN  IF r.tag = "Some"
           THEN Bind(call, r.group)
           ELSE /\ group' = r.group
                /\ last' = call
                /\ drawn' = 0
                /\ UNCHANGED <<geometry, other, seen, seenOther, panicked, pc, pulls>>

\* Group::parse_unwrap(input): Self::parse(input).unwrap().unwrap()
ParseUnwrap(input) ==
    /\ ~panicked
    /\ pc = "start"
    /\ LET r == parse(input)
           call == Call("parse_unwrap", Moved, Moved, -1, input, r.tag)
       IN  IF r.tag = "Some" THEN Bind(call, r.group) ELSE Abort(call)

\* The largest parameter the family constructors are called with.
FamilyMax == 9

GossetRangeFromThree == 3..8

\* (4..=8).contains(&n)
GossetRange == 4..8

\* (2..=4).contains(&n)
PentagonalRange == 2..4

\* Cox::e(n).group().unwrap() and Cox::h(n).group().unwrap(): a group of
\* dimension n, whose elements are not followed.
Family(n) == new(n, <<>>)

\* A family constructor: the assertion on n, then the diagram and its group.
FamilyCall(op, n, range) ==
    /\ ~panicked
    /\ pc = "start"
    /\ IF n \in range
       THEN /\ group' = Family(n)
            /\ last' = Call(op, Moved, Moved, n, "", "diagram")
            /\ pc' = "family"
            /\ UNCHANGED <<geometry, other, seen, seenOther, panicked, pulls, drawn>>
       ELSE Abort(Call(op, Moved, Moved, n, "", ""))

\* Group::gosset(n)
Gosset(n) == FamilyCall("gosset", n, GossetRange)

\* Group::pentagonal(n)
Pentagonal(n) == FamilyCall("pentagonal", n, PentagonalRange)

Dihedral2(n) ==
    Bind(Call("dihedral_2", Moved, Moved, n, "", ""), dihedral_2(n))

Dihedral3(n) ==
    Bind(Call("dihedral_3", Moved, Moved, n, "", ""), dihedral_3(n))

---------------------------------------------------------------------------
(* Iteration and cloning.                                                  *)

\* Iterator::next on group: None leaves the group as it is.
Next1Peek ==
    /\ ~panicked
    /\ pc \in {"built", "cloned"}
    /\ pulls < MaxPull
    /\ IF group.iter = <<>>
       THEN /\ last' = Call("next", group, Moved, -1, "", "")
            /\ pulls' = pulls + 1
            /\ drawn' = 0
            /\ UNCHANGED <<geometry, group, other, seen, seenOther, panicked, pc>>
       ELSE IF IsPoison(Head(group.iter))
       THEN AbortPulling(Call("next", group, Moved, -1, "", ""), 1)
       ELSE /\ group' = group
            /\ seen' = Append(seen, Head(group.iter))
            /\ last' = Call("next", group, Moved, -1, "", "")
            /\ pulls' = pulls + 1
            /\ drawn' = 1
            /\ UNCHANGED <<geometry, other, seenOther, panicked, pc>>

Next1 ==
    /\ ~panicked
    /\ pc \in {"built", "cloned"}
    /\ pulls < MaxPull
    /\ IF group.iter = <<>>
       THEN /\ last' = Call("next", group, Moved, -1, "", "")
            /\ pulls' = pulls + 1
            /\ drawn' = 0
            /\ UNCHANGED <<geometry, group, other, seen, seenOther, panicked, pc>>
       ELSE IF IsPoison(Head(group.iter))
       THEN AbortPulling(Call("next", group, Moved, -1, "", ""), 1)
       ELSE /\ group' = [group EXCEPT !.iter = Tail(@)]
            /\ seen' = Append(seen, Head(group.iter))
            /\ last' = Call("next", group, Moved, -1, "", "")
            /\ pulls' = pulls + 1
            /\ drawn' = 1
            /\ UNCHANGED <<geometry, other, seenOther, panicked, pc>>

\* Iterator::count on group: pulls every remaining element.
Count1 ==
    /\ ~panicked
    /\ pc \in {"built", "cloned", "rotated"}
    /\ IF HasPoison(group.iter)
       THEN AbortPulling(Call("count", group, Moved, -1, "", ""),
                         Taken(group.iter))
       ELSE /\ group' = [group EXCEPT !.iter = <<>>]
            /\ seen' = seen \o group.iter
            /\ last' = Call("count", group, Moved, -1, "", "")
            /\ drawn' = Len(group.iter)
            /\ UNCHANGED <<geometry, other, seenOther, panicked, pc, pulls>>

Count2Shared ==
    /\ ~panicked
    /\ pc \in {"built", "cloned"}
    /\ IsBound(other)
    /\ ~HasPoison(other.iter)
    /\ other' = [other EXCEPT !.iter = <<>>]
    /\ seenOther' = seenOther \o other.iter
    /\ group' = [group EXCEPT !.iter = <<>>]
    /\ last' = Call("count", other, Moved, -1, "", "")
    /\ drawn' = Len(other.iter)
    /\ UNCHANGED <<geometry, seen, panicked, pc, pulls>>

\* group.clone().count(): the same on the clone
Count2 ==
    /\ ~panicked
    /\ pc \in {"built", "cloned"}
    /\ IsBound(other)
    /\ IF HasPoison(other.iter)
       THEN AbortPulling(Call("count", other, Moved, -1, "", ""),
                         Taken(other.iter))
       ELSE /\ other' = [other EXCEPT !.iter = <<>>]
            /\ seenOther' = seenOther \o other.iter
            /\ last' = Call("count", other, Moved, -1, "", "")
            /\ drawn' = Len(other.iter)
            /\ UNCHANGED <<geometry, group, seen, panicked, pc, pulls>>

\* The constructors: their iterators can be cloned, as a cache can (the
\* combinators return an opaque iterator).
Constructors ==
    {"new", "trivial", "central_inv", "reflection_at", "cyclic", "cyclic_gen", "simplex", "hypercube",
     "dihedral_2", "dihedral_3", "parse", "parse_unwrap"}

\* group.clone(): a second group with its own copy of the remaining
\* elements.
Clone ==
    /\ ~panicked
    /\ \/ pc = "built" /\ last.op \in Constructors /\ pc' = pc
       \/ pc = "cached" /\ pc' = "cloned"
    /\ other' = group
    /\ seenOther' = <<>>
    /\ last' = Call("clone", group, Moved, -1, "", "")
    /\ drawn' = 0
    /\ UNCHANGED <<geometry, group, seen, panicked, pulls>>

---------------------------------------------------------------------------
(* Combinators.  A combinator that collects its input pulls every element  *)
(* when it is called; the others pull as their result is pulled.           *)

Cache ==
    /\ ~panicked
    /\ pc \in {"built", "combined"}
    /\ Unary(Call("cache", group, Moved, -1, "", ""), cache(group), "cached")

PermutationsCall ==
    /\ ~panicked
    /\ pc = "built"
    /\ Len(group.iter) <= MaxOrder
    /\ Unary(Call("permutations", group, Moved, -1, "", ""),
             permutations(group), "permuted")

Rotations ==
    /\ ~panicked
    /\ \/ pc = "built" /\ last.op # "rotations"
       \/ pc = "cloned"
    /\ Unary(Call("rotations", group, Moved, -1, "", ""), rotations(group),
             IF pc = "built" THEN "built" ELSE "rotated")

Pad(k) ==
    /\ ~panicked
    /\ pc = "built"
    /\ Len(group.iter) <= MaxOrder
    /\ group.dim + k <= MaxOutDim
    /\ Unary(Call("pad", group, Moved, k, "", ""), pad(group, k), "combined")

MatrixProduct(g) ==
    /\ ~panicked
    /\ pc = "built"
    /\ Len(group.iter) * Len(g.iter) <= MaxOrder
    /\ Binary(Call("matrix_product", group, g, -1, "", ""),
              matrix_product(group, g), "combined")

WithCentralInvUnchecked ==
    /\ ~panicked
    /\ pc = "built"
    /\ 2 * Len(group.iter) <= MaxOrder
    /\ Unary(Call("with_central_inv", group, Moved, -1, "", ""),
             matrix_product(group,
                            two(group.dim, neg(identity(group.dim)))),
             "combined")

\* Group::central_inv asserts dim >= 1.
WithCentralInv ==
    /\ ~panicked
    /\ pc = "built"
    /\ IF group.dim < 1
       THEN Abort(Call("with_central_inv", group, Moved, -1, "", ""))
       ELSE /\ 2 * Len(group.iter) <= MaxOrder
            /\ Unary(Call("with_central_inv", group, Moved, -1, "", ""),
                     with_central_inv(group), "combined")

\* Group::reflection_at asserts dim >= 1 and writes at (idx, idx).
WithReflectionAt(idx) ==
    /\ ~panicked
    /\ pc = "built"
    /\ IF group.dim < 1 \/ idx >= group.dim
       THEN Abort(Call("with_reflection_at", group, Moved, idx, "", ""))
       ELSE /\ 2 * Len(group.iter) <= MaxOrder
            /\ Unary(Call("with_reflection_at", group, Moved, idx, "", ""),
                     with_reflection_at(group, idx), "combined")

DirectProduct(g) ==
    /\ ~panicked
    /\ pc = "built"
    /\ Len(group.iter) * Len(g.iter) <= MaxOrder
    /\ group.dim + g.dim <= MaxOutDim
    /\ Binary(Call("direct_product", group, g, -1, "", ""),
              direct_product(group, g), "combined")

\* assert_eq!(self.dim, 3); assert_eq!(g.dim, 3).  The call is made on the
\* groups whose quaternions the model computes exactly.
SwirlCall(op, g, alpha, beta, result) ==
    /\ ~panicked
    /\ pc = "built"
    /\ IF group.dim # 3 \/ g.dim # 3
       THEN Abort(Call(op, group, g, -1, "", ""))
       ELSE /\ \/ Panics(Call(op, group, g, -1, alpha, beta))
               \/ Inexact(group) = {} /\ Inexact(g) = {}
            /\ 2 * Len(group.iter) * Len(g.iter) <= MaxOrder
            /\ Binary(Call(op, group, g, -1, alpha, beta), result, "combined")

SwirlHom(g, alpha, beta) ==
    SwirlCall("swirl_hom", g, alpha, beta, swirl_hom(group, g, alpha, beta))

Swirl(g) == SwirlCall("swirl", g, "unit", "unit", swirl(group, g))

StepHom(d) ==
    /\ ~panicked
    /\ pc = "built"
    /\ Len(group.iter) <= MaxOrder
    /\ 2 * group.dim <= MaxOutDim
    /\ Unary(Call("step_hom", group, Moved, d, "", ""), step_hom(group, d),
             "combined")

---------------------------------------------------------------------------
(* The groups the tests of the module build.                               *)

Build(call, result) ==
    /\ ~panicked
    /\ pc = "start"
    /\ group' = result
    /\ last' = call
    /\ drawn' = Drawn(call)
    /\ pc' = "combined"
    /\ UNCHANGED <<geometry, other, seen, seenOther, panicked, pulls>>

\* tests::a3xa3
a3xa3 ==
    Build(Call("direct_product", simplex3, simplex3, -1, "", ""),
          direct_product(simplex3, simplex3))

\* tests::a3_p_swirl_i2xi_p, for the n whose rotation has an exact quaternion
a3_p_swirl_i2xi_p(n) ==
    /\ Inexact(pad(cyclic(n), 1)) = {}
    /\ Build(Call("swirl", rotations(simplex3), pad(cyclic(n), 1), -1,
                  "unit", "unit"),
             swirl(rotations(simplex3), pad(cyclic(n), 1)))

\* tests::pm_an, for n = 3
pm_an ==
    Build(Call("matrix_product", simplex3, central_inv(3), -1, "", ""),
          matrix_product(simplex3, central_inv(3)))

---------------------------------------------------------------------------

\* The groups built in the argument position of a combinator.
ArgGroups ==
    { trivial(1), trivial(3), central_inv(1), central_inv(2),
      reflection_at(3, 0), cyclic(2), cyclic(4), pad(cyclic(2), 1) }

Operands == ArgGroups \cup (IF IsBound(other) THEN {other} ELSE {})

Next ==
    \/ \E g \in NewInputs : New(g)
    \/ \E n \in 0..MaxDim : Trivial(n)
    \/ \E n \in 0..MaxDim : CentralInv(n)
    \/ \E n \in 0..MaxDim : \E idx \in 0..(MaxDim - 1) : ReflectionAt(n, idx)
    \/ \E k \in 1..Len(CyclicGens) : CyclicGen(k)
    \/ \E n \in CyclicOrders : Cyclic(n)
    \/ Simplex
    \/ \E n \in 2..MaxDim : Hypercube(n)
    \/ \E input \in Diagrams : Parse(input)
    \/ \E input \in Diagrams : ParseUnwrap(input)
    \/ \E n \in 0..FamilyMax : Gosset(n)
    \/ \E n \in 0..FamilyMax : Pentagonal(n)
    \/ \E n \in CyclicOrders : Dihedral2(n)
    \/ \E n \in CyclicOrders : Dihedral3(n)
    \/ Next1
    \/ Count1
    \/ Count2
    \/ Clone
    \/ Cache
    \/ PermutationsCall
    \/ Rotations
    \/ \E k \in 0..MaxDim : Pad(k)
    \/ \E g \in Operands : MatrixProduct(g)
    \/ WithCentralInv
    \/ \E idx \in 0..(MaxDim - 1) : WithReflectionAt(idx)
    \/ \E g \in Operands : DirectProduct(g)
    \/ \E g \in Operands : \E alpha \in HomNames : \E beta \in HomNames :
          SwirlHom(g, alpha, beta)
    \/ \E g \in Operands : Swirl(g)
    \/ \E d \in 0..MaxPow : StepHom(d)
    \/ a3xa3
    \/ \E n \in CyclicOrders \ {1} : a3_p_swirl_i2xi_p(n)
    \/ pm_an

Spec == Init /\ [][Next]_vars

---------------------------------------------------------------------------
(* Geometry (geometry.rs).  A Float is kept exact, as the fraction <<n, d>> *)
(* in lowest terms with d > 0; a Point is a sequence of fractions.  The    *)
(* rounding of the floating point operations is not modelled.              *)

\* The largest root taken of a numerator or a denominator.
MaxRoot == 64

RECURSIVE Gcd(_, _)
Gcd(a, b) == IF b = 0 THEN a ELSE Gcd(b, a % b)

Abs(x) == IF x < 0 THEN 0 - x ELSE x

\* n / d, for d # 0
Frac(n, d) ==
    LET g == Gcd(Abs(n), Abs(d))
        sgn == IF d < 0 THEN -1 ELSE 1
    IN  <<(sgn * n) \div g, (sgn * d) \div g>>

\* x + y and x - y, over the least common denominator
FAdd(x, y) ==
    LET g == Gcd(x[2], y[2])
    IN  Frac(x[1] * (y[2] \div g) + y[1] * (x[2] \div g),
             (x[2] \div g) * y[2])

FSub(x, y) ==
    LET g == Gcd(x[2], y[2])
    IN  Frac(x[1] * (y[2] \div g) - y[1] * (x[2] \div g),
             (x[2] \div g) * y[2])

FMul(x, y) == Frac(x[1] * y[1], x[2] * y[2])

\* x / y, for y # 0
FDiv(x, y) == Frac(x[1] * y[2], x[2] * y[1])

FLess(x, y) == x[1] * y[2] < y[1] * x[2]

HasRoot(x) ==
    /\ \E r \in 0..MaxRoot : r * r = x[1]
    /\ \E r \in 1..MaxRoot : r * r = x[2]

\* The square root of a fraction that has one.
FSqrt(x) ==
    <<CHOOSE r \in 0..MaxRoot : r * r = x[1],
      CHOOSE r \in 1..MaxRoot : r * r = x[2]>>

\* The denominator of EPS: the constant is 1e-9 in the source, and is kept
\* larger here for its square to stay within the integers of the model.
EpsInv == 10

\* Float::EPS
EPS == Frac(1, EpsInv)

\* &a - &b, &a + &b, a * c, a / c and a.dot(b) on points
VSub(a, b) == [i \in 1..Len(a) |-> FSub(a[i], b[i])]

VAdd(a, b) == [i \in 1..Len(a) |-> FAdd(a[i], b[i])]

VScale(a, c) == [i \in 1..Len(a) |-> FMul(a[i], c)]

VDivide(a, c) == [i \in 1..Len(a) |-> FDiv(a[i], c)]

RECURSIVE FSum(_)
FSum(xs) == IF xs = <<>> THEN Frac(0, 1) ELSE FAdd(Head(xs), FSum(Tail(xs)))

VDot(a, b) == FSum([i \in 1..Len(a) |-> FMul(a[i], b[i])])

norm_squared(a) == VDot(a, a)

\* a.norm() < c and a.norm() > c for c >= 0, by the squares
NormBelow(a, c) == FLess(norm_squared(a), FMul(c, c))

NormAbove(a, c) == FLess(FMul(c, c), norm_squared(a))

\* Hypersphere::with_squared_radius(dim, squared_radius)
with_squared_radius(dim, squared_radius) ==
    [center |-> [i \in 1..dim |-> Frac(0, 1)],
     squared_radius |-> squared_radius]

\* Hypersphere::unit(dim)
unit(dim) == with_squared_radius(dim, Frac(1, 1))

reciprocate_mut_unscaled(self, p) ==
    LET q == VSub(p, self.center)
        s == norm_squared(q)
    IN  IF FLess(s, EPS) THEN [res |-> "Err", p |-> p]
        ELSE [res |-> "Ok", p |-> VAdd(VDivide(q, s), self.center)]

\* Hypersphere::reciprocate_mut(&self, p): the result, and p after the call
reciprocate_mut(self, p) ==
    LET q == VSub(p, self.center)
        s == norm_squared(q)
    IN  IF FLess(s, EPS) THEN [res |-> "Err", p |-> p]
        ELSE [res |-> "Ok",
              p |-> VAdd(VScale(VDivide(q, s), self.squared_radius),
                         self.center)]

\* Hypersphere::reciprocate(&self, p): Some(point) or None
reciprocate(self, p) ==
    LET clone == reciprocate_mut(self, p)
    IN  IF clone.res = "Ok" THEN [some |-> TRUE, p |-> clone.p]
        ELSE [some |-> FALSE, p |-> <<>>]

\* Hypersphere::approx(&self, sphere)
approx(self, sphere) ==
    /\ NormBelow(VSub(self.center, sphere.center), EPS)
    /\ FLess(FSub(self.squared_radius, sphere.squared_radius), EPS)

\* Subspace::new(p)
subspace_new(p) == [basis |-> <<>>, offset |-> p]

\* Subspace::dim and Subspace::rank
subspace_dim(self) == Len(self.offset)

subspace_rank(self) == Len(self.basis)

is_full_rank(self) == subspace_dim(self) = subspace_rank(self)

RECURSIVE ProjectOnto(_, _, _)
\* The loop of Subspace::project: q += b * p.dot(b), for each b
ProjectOnto(basis, p, q) ==
    IF basis = <<>> THEN q
    ELSE ProjectOnto(Tail(basis), p,
                     VAdd(q, VScale(Head(basis), VDot(p, Head(basis)))))

\* Subspace::project(&self, p)
project(self, p) == ProjectOnto(self.basis, VSub(p, self.offset), self.offset)

\* The norm of p - self.project(p) is one the model takes the root of, or is
\* not above EPS.
Exact(self, p) ==
    LET v == VSub(p, project(self, p))
    IN  ~NormAbove(v, EPS) \/ HasRoot(norm_squared(v))

add_unnormalized(self, p) ==
    LET v == VSub(p, project(self, p))
    IN  IF NormAbove(v, EPS)
        THEN [h |-> [self EXCEPT !.basis = Append(@, v)],
              some |-> TRUE, v |-> v]
        ELSE [h |-> self, some |-> FALSE, v |-> <<>>]

\* Subspace::add(&mut self, p): the subspace after the call, and Some(v) or
\* None
add(self, p) ==
    LET v == VSub(p, project(self, p))
        unitv == VDivide(v, FSqrt(norm_squared(v)))
    IN  IF NormAbove(v, EPS)
        THEN [h |-> [self EXCEPT !.basis = Append(@, unitv)],
              some |-> TRUE, v |-> unitv]
        ELSE [h |-> self, some |-> FALSE, v |-> <<>>]

RECURSIVE AddPoints(_, _)
\* The loop of Subspace::from_point_refs, which ends at full rank
AddPoints(h, points) ==
    IF points = <<>> THEN h
    ELSE LET r == add(h, Head(points))
         IN  IF r.some /\ is_full_rank(r.h) THEN r.h
             ELSE AddPoints(r.h, Tail(points))

\* Subspace::from_point_refs(points), for points that are not empty
from_point_refs(points) == AddPoints(subspace_new(Head(points)), Tail(points))

\* Subspace::from_points(points)
from_points(points) == from_point_refs(points)

---------------------------------------------------------------------------
(* Shapes (polytope/shapes.rs).  Indices are those of the source, from 0.  *)

\* Polytope::new(vertices, elements)
polytope_new(vertices, elements) ==
    [vertices |-> vertices, elements |-> elements]

\* Polytope::el_counts: the number of vertices, then of the elements of
\* each rank
el_counts(self) ==
    <<Len(self.vertices)>>
        \o [r \in 1..Len(self.elements) |-> Len(self.elements[r])]

\* cube()
cube ==
    LET x == Frac(1, 2)
        mx == Frac(-1, 2)
        vertices == << <<x, x, x>>, <<x, x, mx>>, <<x, mx, mx>>,
                       <<x, mx, x>>, <<mx, x, x>>, <<mx, x, mx>>,
                       <<mx, mx, mx>>, <<mx, mx, x>> >>
        edges == << <<0, 1>>, <<1, 2>>, <<2, 3>>, <<3, 0>>, <<4, 5>>,
                    <<5, 6>>, <<6, 7>>, <<7, 3>>, <<0, 4>>, <<1, 5>>,
                    <<2, 6>>, <<3, 7>> >>
        faces == << <<0, 1, 2, 3>>, <<4, 5, 6, 7>>, <<0, 4, 8, 9>>,
                    <<1, 5, 9, 10>>, <<2, 6, 10, 11>>, <<3, 7, 11, 8>> >>
        components == << <<0, 1, 2, 3, 4, 5>> >>
    IN  polytope_new(vertices, <<edges, faces, components>>)

---------------------------------------------------------------------------
(* A program on the geometry: it may build the cube, and then either takes *)
(* a hypersphere and points (pc = "sphere"), reciprocates the points and   *)
(* compares the hypersphere with others, or builds a subspace and adds     *)
(* points to it (pc = "subspace").                                         *)

F0 == Frac(0, 1)

F1 == Frac(1, 1)

\* The points of the programs: of two and of three coordinates, some closer
\* than EPS to another or to the origin.
Points ==
    { <<F0, F0, F0>>, <<F1, F0, F0>>, <<Frac(3, 1), Frac(4, 1), F0>>,
      <<Frac(4, 1), Frac(-3, 1), F0>>, <<F1, Frac(1, 20), F0>>,
      <<Frac(1, 20), F0, F0>>, <<Frac(1, 2), Frac(1, 2), Frac(1, 2)>>,
      <<Frac(1, 2), Frac(-1, 2), Frac(1, 2)>>,
      <<F0, F0>>, <<Frac(3, 1), Frac(4, 1)>>, <<F0, F1>> }

\* The hyperspheres of the programs.
Spheres ==
    { unit(2), unit(3),
      with_squared_radius(3, F0),
      with_squared_radius(3, Frac(-1, 1)),
      with_squared_radius(3, Frac(1, 4)),
      with_squared_radius(3, Frac(21, 20)),
      [center |-> <<Frac(1, 2), Frac(1, 2), Frac(1, 2)>>,
       squared_radius |-> Frac(3, 4)],
      [center |-> <<Frac(1, 20), F0, F0>>, squared_radius |-> F1] }

\* The lists of points handed to Subspace::from_points.
PointLists ==
    { <<>>,
      << <<F0, F0>>, <<Frac(3, 1), Frac(4, 1)>>, <<F0, F1>>, <<F0, F0>> >>,
      << <<F0, F0, F0>>, <<Frac(3, 1), Frac(4, 1), F0>>,
         <<Frac(76, 25), Frac(397, 100), F0>>, <<F0, F0, F1>> >>,
      << <<F1, F0, F0>>, <<F1, Frac(1, 20), F0>>, <<F1, F0, F0>> >> }

InitGeometry ==
    /\ group = Moved
    /\ other = Moved
    /\ seen = <<>>
    /\ seenOther = <<>>
    /\ last = Call("none", Moved, Moved, -1, "", "")
    /\ pulls = 0
    /\ drawn = 0
    /\ panicked = FALSE
    /\ pc = "geometry"
    /\ polytope = NoValue
    /\ hypersphere = NoValue
    /\ point = NoValue
    /\ subspace = NoValue
    /\ ret = NoValue

\* An operation on points of different numbers of coordinates aborts.
Mismatch(call) ==
    /\ panicked' = TRUE
    /\ ret' = call
    /\ UNCHANGED <<groups, polytope, hypersphere, point, subspace, pc>>

\* let polytope = cube()
Cube ==
    /\ ~panicked
    /\ pc = "geometry"
    /\ polytope = NoValue
    /\ polytope' = cube
    /\ ret' = [op |-> "cube"]
    /\ UNCHANGED <<groups, hypersphere, point, subspace, panicked, pc>>

\* let sphere = Hypersphere { .. }, or one of its constructors
Sphere(s) ==
    /\ ~panicked
    /\ pc = "geometry"
    /\ hypersphere' = s
    /\ pc' = "sphere"
    /\ ret' = [op |-> "sphere"]
    /\ UNCHANGED <<groups, polytope, point, subspace, panicked>>

\* let mut p = a point
PointLiteral(q) ==
    /\ ~panicked
    /\ pc = "sphere"
    /\ point' = q
    /\ ret' = [op |-> "point"]
    /\ UNCHANGED <<groups, polytope, hypersphere, subspace, panicked, pc>>

\* let mut p = polytope.vertices[i].clone()
Vertex(i) ==
    /\ ~panicked
    /\ pc = "sphere"
    /\ polytope # NoValue
    /\ point' = polytope.vertices[i + 1]
    /\ ret' = [op |-> "vertex"]
    /\ UNCHANGED <<groups, polytope, hypersphere, subspace, panicked, pc>>

\* sphere.reciprocate_mut(&mut p)
ReciprocateMut ==
    /\ ~panicked
    /\ pc = "sphere"
    /\ point # NoValue
    /\ IF Len(point) # Len(hypersphere.center)
       THEN Mismatch([op |-> "reciprocate_mut", p |-> point, res |-> "panic"])
       ELSE /\ point' = reciprocate_mut(hypersphere, point).p
            /\ ret' = [op |-> "reciprocate_mut", p |-> point,
                       res |-> reciprocate_mut(hypersphere, point).res]
            /\ UNCHANGED <<groups, polytope, hypersphere, subspace, panicked,
                           pc>>

\* sphere.reciprocate(&p)
Reciprocate ==
    /\ ~panicked
    /\ pc = "sphere"
    /\ point # NoValue
    /\ IF Len(point) # Len(hypersphere.center)
       THEN Mismatch([op |-> "reciprocate", p |-> point, res |-> "panic"])
       ELSE /\ ret' = [op |-> "reciprocate", p |-> point,
                       res |-> reciprocate(hypersphere, point)]
            /\ UNCHANGED <<groups, polytope, hypersphere, point, subspace,
                           panicked, pc>>

\* self.approx(&sphere)
Approx(b) ==
    /\ ~panicked
    /\ pc = "sphere"
    /\ IF Len(b.center) # Len(hypersphere.center)
       THEN Mismatch([op |-> "approx", sphere |-> b, res |-> "panic"])
       ELSE /\ ret' = [op |-> "approx", sphere |-> b,
                       res |-> approx(hypersphere, b)]
            /\ UNCHANGED <<groups, polytope, hypersphere, point, subspace,
                           panicked, pc>>

\* let mut h = Subspace::new(q)
SubspaceNew(q) ==
    /\ ~panicked
    /\ pc = "geometry"
    /\ subspace' = subspace_new(q)
    /\ pc' = "subspace"
    /\ ret' = [op |-> "new", p |-> q]
    /\ UNCHANGED <<groups, polytope, hypersphere, point, panicked>>

\* h.add(&q), on the points whose residual the model normalizes exactly
Add(q) ==
    /\ ~panicked
    /\ pc = "subspace"
    /\ IF Len(q) # subspace_dim(subspace)
       THEN Mismatch([op |-> "add", h |-> subspace, p |-> q, some |-> FALSE,
                      v |-> <<>>])
       ELSE /\ Exact(subspace, q)
            /\ subspace' = add(subspace, q).h
            /\ ret' = [op |-> "add", h |-> subspace, p |-> q,
                       some |-> add(subspace, q).some,
                       v |-> add(subspace, q).v]
            /\ UNCHANGED <<groups, polytope, hypersphere, point, panicked,
                           pc>>

\* The points of a list have as many coordinates as the first.
SameDim(points) == \A i \in 1..Len(points) : Len(points[i]) = Len(points[1])

\* let h = Subspace::from_points(&points): an empty list fails the expect
FromPointList(points) ==
    /\ ~panicked
    /\ pc = "geometry"
    /\ IF points = <<>> \/ ~SameDim(points)
       THEN Mismatch([op |-> "from_points", points |-> points])
       ELSE /\ subspace' = from_points(points)
            /\ pc' = "subspace"
            /\ ret' = [op |-> "from_points", points |-> points]
            /\ UNCHANGED <<groups, polytope, hypersphere, point, panicked>>

\* let h = Subspace::from_points(&polytope.vertices)
FromVertices ==
    /\ polytope # NoValue
    /\ FromPointList(polytope.vertices)

NextGeometry ==
    \/ Cube
    \/ \E s \in Spheres : Sphere(s)
    \/ \E q \in Points : PointLiteral(q)
    \/ \E i \in 0..7 : Vertex(i)
    \/ ReciprocateMut
    \/ Reciprocate
    \/ \E b \in Spheres : Approx(b)
    \/ \E q \in Points : SubspaceNew(q)
    \/ \E q \in Points : Add(q)
    \/ \E points \in PointLists : FromPointList(points)
    \/ FromVertices

SpecGeometry == InitGeometry /\ [][NextGeometry]_vars

---------------------------------------------------------------------------
(* What the claims are stated with.                                        *)

\* s is the block matrix with g at the top left, h at the bottom right and
\* zero elsewhere.
IsDirectSum(s, g, h) ==
    LET d1 == Len(g)
        d == Len(g) + Len(h)
    IN  /\ Len(s) = d
        /\ \A i \in 1..d :
              /\ Len(s[i]) = d
              /\ \A j \in 1..d :
                    s[i][j] = IF i <= d1 /\ j <= d1 THEN g[i][j]
                              ELSE IF i > d1 /\ j > d1 THEN h[i - d1][j - d1]
                              ELSE 0

\* The number of elements of a sequence of matrices with a determinant
\* greater than zero.
RotationCount(s) ==
    Cardinality({p \in 1..Len(s) : determinant(s[p]) > 0})

\* The calls that pair the elements of two groups.
PairingCalls == {"matrix_product", "direct_product", "swirl", "swirl_hom"}

---------------------------------------------------------------------------
(* C1: into_pairs on lists A (length m) and B (length k) yields m * k      *)
(* pairs, and the pair at 0-based position j * m + i is (A[i], B[j]): the  *)
(* first list varies fastest.  ([1,2],[3,4]) yields (1,3),(2,3),(1,4),     *)
(* (2,4).  Checked on the two element lists of every pairing call.         *)
PairsOrder ==
    /\ into_pairs(<<1, 2>>, <<3, 4>>) = << <<1, 3>>, <<2, 3>>, <<1, 4>>, <<2, 4>> >>
    /\ (last.op \in PairingCalls /\ ~panicked) =>
          LET A == last.self.iter
              B == last.g.iter
              m == Len(A)
              k == Len(B)
              P == into_pairs(A, B)
          IN  /\ Len(P) = m * k
              /\ \A i \in 0..(m - 1) : \A j \in 0..(k - 1) :
                    P[j * m + i + 1] = <<A[i + 1], B[j + 1]>>

PairsOrderWitness ==
    /\ last.op \in PairingCalls
    /\ ~panicked
    /\ Len(last.self.iter) >= 2
    /\ Len(last.g.iter) >= 2
    /\ last.self.iter[1] # last.self.iter[2]
    /\ last.g.iter[1] # last.g.iter[2]

---------------------------------------------------------------------------
(* C2: cache() returns a group of the same dimension whose elements are    *)
(* the remaining elements of its input, in order; the cached group and its *)
(* clone, each iterated on its own, yield the same sequence.               *)
CacheReplays ==
    /\ (last.op = "cache" /\ ~panicked) =>
          /\ group.dim = last.self.dim
          /\ group.iter = last.self.iter
    /\ (pc = "cloned") => seen \o group.iter = seenOther \o other.iter
    /\ (pc = "cloned" /\ group.iter = <<>> /\ other.iter = <<>>) =>
          seen = seenOther

CacheReplaysWitness ==
    /\ pc = "cloned"
    /\ group.iter = <<>>
    /\ other.iter = <<>>
    /\ Len(seen) >= 3
    /\ seen = seenOther
    /\ seen[1] # seen[2]

---------------------------------------------------------------------------
(* C3: direct_product of G (dimension d1, m elements) and H (dimension d2, *)
(* k elements) has dimension d1 + d2 and m * k elements; the element at    *)
(* 0-based position j * m + i is the block matrix of g_i and h_j, the      *)
(* elements of G varying fastest.  The product of the rank-3 simplex group *)
(* with itself has 576 elements, 288 of them with positive determinant.    *)
DirectProductBlocks ==
    (last.op = "direct_product" /\ ~panicked) =>
        LET A == last.self.iter
            B == last.g.iter
            m == Len(A)
            k == Len(B)
        IN  /\ group.dim = last.self.dim + last.g.dim
            /\ Len(group.iter) = m * k
            /\ \A i \in 0..(m - 1) : \A j \in 0..(k - 1) :
                  IsDirectSum(group.iter[j * m + i + 1], A[i + 1], B[j + 1])
            /\ (last.self = simplex3 /\ last.g = simplex3) =>
                  /\ Len(group.iter) = 576
                  /\ RotationCount(group.iter) = 288

DirectProductBlocksWitness ==
    /\ last.op = "direct_product"
    /\ ~panicked
    /\ last.self = simplex3
    /\ last.g = simplex3
    /\ group.dim = 6
    /\ Len(group.iter) = 576

---------------------------------------------------------------------------
(* C4: direct_sum of a d1 x d1 matrix g and a d2 x d2 matrix h is the      *)
(* (d1 + d2) x (d1 + d2) matrix with g in its top-left block, h in its     *)
(* bottom-right block and zero elsewhere.  Checked on every pair of        *)
(* elements of the two groups of a pairing call.                           *)
DirectSumEntries ==
    (last.op \in PairingCalls /\ ~panicked) =>
        \A p \in 1..Len(last.self.iter) : \A q \in 1..Len(last.g.iter) :
            LET g == last.self.iter[p]
                h == last.g.iter[q]
            IN  IsDirectSum(direct_sum(g, h), g, h)

DirectSumEntriesWitness ==
    /\ last.op = "direct_product"
    /\ ~panicked
    /\ last.self.dim = 2
    /\ last.g.dim = 1
    /\ \E p \in 1..Len(last.self.iter) :
          /\ last.self.iter[p][1][2] # last.self.iter[p][2][1]
          /\ \E q \in 1..Len(group.iter) :
                group.iter[q] = direct_sum(last.self.iter[p], last.g.iter[1])

---------------------------------------------------------------------------
(* C5: rotations() keeps the dimension and yields, in their order, exactly *)
(* the elements whose determinant is greater than zero: a kept element of  *)
(* the input stands at the position of its rank among the kept ones, and   *)
(* an element of determinant zero or less is dropped.  (Stated of the      *)
(* inputs all of whose elements can be evaluated.)                         *)
RotationsKeepsPositive ==
    (last.op = "rotations" /\ ~panicked /\ ~HasPoison(last.self.iter)) =>
        LET A == last.self.iter
            kept == {p \in 1..Len(A) : determinant(A[p]) > 0}
        IN  /\ group.dim = last.self.dim
            /\ Len(group.iter) = Cardinality(kept)
            /\ \A p \in kept :
                  group.iter[Cardinality({r \in kept : r <= p})] = A[p]

RotationsKeepsPositiveWitness ==
    /\ last.op = "rotations"
    /\ ~panicked
    /\ ~HasPoison(last.self.iter)
    /\ \E p \in 1..Len(last.self.iter) : determinant(last.self.iter[p]) = 0
    /\ \E p \in 1..Len(last.self.iter) : determinant(last.self.iter[p]) < 0
    /\ Len(group.iter) >= 1

---------------------------------------------------------------------------
(* C6: matrix_product of G (m elements) and H yields g_i * h_j at 0-based  *)
(* position j * m + i.  with_central_inv and with_reflection_at(idx) yield *)
(* 2m elements: first each g_i times the identity, that is g_i itself,     *)
(* then each g_i times X, where X is minus the identity (every entry of    *)
(* g_i negated) or the reflection of axis idx (column idx of g_i negated). *)
MatrixProductOrder ==
    LET A == last.self.iter
        m == Len(A)
        d == last.self.dim
    IN  /\ (last.op = "matrix_product" /\ ~panicked) =>
              /\ Len(group.iter) = m * Len(last.g.iter)
              /\ \A i \in 0..(m - 1) : \A j \in 0..(Len(last.g.iter) - 1) :
                    group.iter[j * m + i + 1] = mul(A[i + 1], last.g.iter[j + 1])
        /\ (last.op = "with_central_inv" /\ ~panicked) =>
              /\ Len(group.iter) = 2 * m
              /\ \A i \in 1..m :
                    /\ group.iter[i] = A[i]
                    /\ group.iter[m + i] =
                          [r \in 1..d |-> [c \in 1..d |-> 0 - A[i][r][c]]]
        /\ (last.op = "with_reflection_at" /\ ~panicked) =>
              /\ Len(group.iter) = 2 * m
              /\ \A i \in 1..m :
                    /\ group.iter[i] = A[i]
                    /\ group.iter[m + i] =
                          [r \in 1..d |-> [c \in 1..d |->
                              IF c = last.k + 1 THEN 0 - A[i][r][c]
                                                ELSE A[i][r][c]]]

MatrixProductOrderWitness ==
    /\ last.op = "with_reflection_at"
    /\ ~panicked
    /\ last.self.dim = 2
    /\ Len(group.iter) = 8
    /\ \E i \in 1..Len(last.self.iter) : last.self.iter[i][2][1] # 0

---------------------------------------------------------------------------
(* C7: pad(k) on a group of dimension d has dimension d + k, and each of   *)
(* its elements is the block matrix of the element of the input at the     *)
(* same position and the k x k identity: same order, same count.           *)
PadBlocks ==
    (last.op = "pad" /\ ~panicked) =>
        LET A == last.self.iter
            I == [r \in 1..last.k |-> [c \in 1..last.k |->
                     IF r = c THEN ONE ELSE 0]]
        IN  /\ group.dim = last.self.dim + last.k
            /\ Len(group.iter) = Len(A)
            /\ \A p \in 1..Len(A) : IsDirectSum(group.iter[p], A[p], I)

PadBlocksWitness ==
    /\ last.op = "pad"
    /\ ~panicked
    /\ last.k >= 1
    /\ last.self.dim >= 1
    /\ Len(group.iter) >= 2
    /\ group.iter[1] # group.iter[2]

---------------------------------------------------------------------------
(* C8: swirl_hom on G and H of dimension 3 (m and k elements) has          *)
(* dimension 4.  Going through the pairs (g, h) with the elements of G     *)
(* varying fastest, each pair with alpha(g) = beta(h) gives two elements,  *)
(* first -q and then q, for q the 4 x 4 matrix of the quaternions of g and *)
(* h; the other pairs give nothing, so there are twice as many elements as *)
(* matching pairs.                                                         *)
SwirlHomMatches ==
    (last.op \in {"swirl_hom", "swirl"} /\ ~panicked) =>
        LET A == last.self.iter
            B == last.g.iter
            m == Len(A)
            k == Len(B)
            matches == {L \in 0..(m * k - 1) :
                          Hom(last.alpha, A[(L % m) + 1])
                             = Hom(last.beta, B[(L \div m) + 1])}
        IN  /\ group.dim = 4
            /\ Len(group.iter) = 2 * Cardinality(matches)
            /\ \A L \in matches :
                  LET rank == Cardinality({x \in matches : x <= L})
                      q == mat_from_quats(mat_to_quat(A[(L % m) + 1]),
                                          mat_to_quat(B[(L \div m) + 1]))
                  IN  /\ group.iter[2 * rank] = q
                      /\ group.iter[2 * rank - 1] =
                            [r \in 1..4 |-> [c \in 1..4 |-> 0 - q[r][c]]]

SwirlHomMatchesWitness ==
    /\ last.op = "swirl_hom"
    /\ ~panicked
    /\ Len(last.self.iter) = 2
    /\ Len(last.g.iter) = 2
    /\ Len(group.iter) = 4
    /\ group.iter[1] # group.iter[3]

---------------------------------------------------------------------------
(* C9: swirl of G and H of dimension 3 has 2 * |G| * |H| elements.  The    *)
(* swirl of the 12 rotations of the rank-3 simplex group with the padded   *)
(* cyclic group of order n has 24 * n elements, all of them of positive    *)
(* determinant.                                                            *)
SwirlCount ==
    (last.op = "swirl" /\ ~panicked) =>
        /\ Len(group.iter) = 2 * Len(last.self.iter) * Len(last.g.iter)
        /\ \A n \in CyclicOrders :
              (last.self = rotations(simplex3) /\ last.g = pad(cyclic(n), 1)) =>
                  /\ Len(last.self.iter) = 12
                  /\ Len(group.iter) = 24 * n
                  /\ RotationCount(group.iter) = 24 * n

SwirlCountWitness ==
    /\ last.op = "swirl"
    /\ ~panicked
    /\ last.self = rotations(simplex3)
    /\ last.g = pad(cyclic(2), 1)
    /\ Len(group.iter) = 48

---------------------------------------------------------------------------
(* C10: step_hom(f) on a group of dimension d has dimension 2d and maps    *)
(* each element g to the block matrix of g and f(g), in the same order.    *)
(* On the cyclic group of order n with f the d-th power, 1 <= d < n, it    *)
(* has n elements, all of them of positive determinant.  (Stated of the    *)
(* inputs all of whose elements can be evaluated.)                         *)
StepHomGraph ==
    (last.op = "step_hom" /\ ~panicked /\ ~HasPoison(last.self.iter)) =>
        LET A == last.self.iter
        IN  /\ group.dim = 2 * last.self.dim
            /\ Len(group.iter) = Len(A)
            /\ \A p \in 1..Len(A) :
                  IsDirectSum(group.iter[p], A[p], pow(A[p], last.k))
            /\ \A n \in CyclicOrders :
                  (last.self = cyclic(n) /\ 1 <= last.k /\ last.k < n) =>
                      /\ Len(group.iter) = n
                      /\ RotationCount(group.iter) = n

StepHomGraphWitness ==
    /\ last.op = "step_hom"
    /\ ~panicked
    /\ last.self = cyclic(4)
    /\ last.k = 3
    /\ Len(group.iter) = 4
    /\ group.dim = 4

---------------------------------------------------------------------------
(* C11: for n >= 2, dihedral_2(n) (dimension 2) and dihedral_3(n)          *)
(* (dimension 3) are built, and each has 2n elements, n of them of         *)
(* positive determinant; the first n are the rotations of cyclic(n), for   *)
(* dihedral_3 padded by one dimension.                                     *)
DihedralOrder ==
    (last.op \in {"dihedral_2", "dihedral_3"} /\ last.k >= 2) =>
        LET n == last.k
            rot == cyclic(n).iter
        IN  /\ ~panicked
            /\ group.dim = IF last.op = "dihedral_2" THEN 2 ELSE 3
            /\ Len(group.iter) = 2 * n
            /\ RotationCount(group.iter) = n
            /\ \A i \in 1..n :
                  /\ determinant(group.iter[i]) > 0
                  /\ IF last.op = "dihedral_2"
                     THEN group.iter[i] = rot[i]
                     ELSE IsDirectSum(group.iter[i], rot[i], << <<ONE>> >>)

DihedralOrderWitness ==
    /\ last.op = "dihedral_3"
    /\ last.k = 4
    /\ pc = "built"
    /\ Len(group.iter) = 8
    /\ group.dim = 3

---------------------------------------------------------------------------
(* C12: for n >= 1, central_inv(n) yields two n x n elements, the identity *)
(* and then minus the identity; its rotations are one element when n is    *)
(* odd and two when n is even.                                             *)
CentralInvPair ==
    /\ (last.op = "central_inv" /\ ~panicked) =>
          LET n == last.k
          IN  /\ group.dim = n
              /\ group.iter =
                    << [i \in 1..n |-> [j \in 1..n |->
                           IF i = j THEN ONE ELSE 0]],
                       [i \in 1..n |-> [j \in 1..n |->
                           IF i = j THEN 0 - ONE ELSE 0]] >>
              /\ RotationCount(group.iter) = IF n % 2 = 1 THEN 1 ELSE 2
    /\ \A n \in 1..MaxDim :
          (last.op = "rotations" /\ last.self = central_inv(n)) =>
              Len(group.iter) = IF n % 2 = 1 THEN 1 ELSE 2

CentralInvPairWitness ==
    /\ last.op = "rotations"
    /\ ~panicked
    /\ last.self = central_inv(2)
    /\ Len(group.iter) = 2

---------------------------------------------------------------------------
(* C13: for n >= 1, trivial(n) has dimension n and yields one element, the *)
(* n x n identity, and its rotations yield that one element as well.       *)
TrivialOne ==
    LET I(n) == [i \in 1..n |-> [j \in 1..n |-> IF i = j THEN ONE ELSE 0]]
    IN  /\ (last.op = "trivial" /\ last.k >= 1) =>
              /\ ~panicked
              /\ group.dim = last.k
              /\ group.iter = <<I(last.k)>>
        /\ \A n \in 1..MaxDim :
              (last.op = "rotations" /\ last.self = trivial(n)) =>
                  /\ ~panicked
                  /\ group.dim = n
                  /\ group.iter = <<I(n)>>

TrivialOneWitness ==
    /\ last.op = "rotations"
    /\ ~panicked
    /\ last.self = trivial(3)
    /\ Len(group.iter) = 1

---------------------------------------------------------------------------
---------------------------------------------------------------------------
\* C15: Group::parse returns exactly one of Ok(Some(group)), for a valid
\* diagram with at least one node, Ok(None), for a valid empty diagram, and
\* Err, for a malformed one; with Ok(None) and Err there is no group at all,
\* and parse_unwrap aborts in exactly those two cases.
ParseOutcome ==
    (last.op \in {"parse", "parse_unwrap"}) =>
        LET cs == DiagramChars[last.alpha]
        IN  /\ last.beta \in {"Some", "None", "Err"}
            /\ (last.beta = "Some") <=> (WellFormed(cs) /\ cs # <<>>)
            /\ (last.beta = "None") <=> (cs = <<>>)
            /\ (last.beta = "Err") <=> ~WellFormed(cs)
            /\ IF last.beta = "Some"
               THEN /\ ~panicked
                    /\ pc = "built"
                    /\ IsBound(group)
                    /\ group.dim = (Len(cs) + 1) \div 2
                    /\ group.iter # <<>>
               ELSE /\ group = Moved
                    /\ pc = "start"
                    /\ panicked <=> (last.op = "parse_unwrap")

ParseOutcomeWitness ==
    /\ last.op = "parse_unwrap"
    /\ last.alpha = "o?o"
    /\ last.beta = "Err"
    /\ panicked
    /\ group = Moved

---------------------------------------------------------------------------
\* C16: gosset(n) aborts on its assertion for every n outside 4..8 and
\* pentagonal(n) for every n outside 2..4, before a diagram is built or an
\* element produced, and neither aborts for an n inside its range.
FamilyFailsFast ==
    (last.op \in {"gosset", "pentagonal"}) =>
        LET inside == IF last.op = "gosset"
                      THEN 4 <= last.k /\ last.k <= 8
                      ELSE 2 <= last.k /\ last.k <= 4
        IN  /\ panicked <=> ~inside
            /\ IF inside
               THEN /\ last.beta = "diagram"
                    /\ pc = "family"
                    /\ IsBound(group)
                    /\ group.dim = last.k
               ELSE /\ last.beta = ""
                    /\ pc = "start"
                    /\ group = Moved
                    /\ drawn = 0
                    /\ seen = <<>>

FamilyFailsFastWitness ==
    /\ last.op = "gosset"
    /\ last.k = 3
    /\ panicked
    /\ group = Moved

---------------------------------------------------------------------------
\* C17, as stated: no call but cache pulls an element of the groups handed
\* to it when it is made.
OnlyCacheMaterializes ==
    (last.op \in {"rotations", "pad", "direct_product", "matrix_product",
                  "with_central_inv", "with_reflection_at", "swirl",
                  "swirl_hom", "step_hom", "permutations"}) =>
        drawn = 0

\* The d-th element a call pulls from self and then from g.
PulledAt(call, d) ==
    IF d <= Len(call.self.iter) THEN call.self.iter[d]
    ELSE call.g.iter[d - Len(call.self.iter)]

\* C17, amended: rotations and step_hom (sub and iso) pull nothing when they
\* are made, and an element whose evaluation aborts stays in the result to
\* abort when it is pulled; cache, permutations, pad, direct_product,
\* matrix_product, with_central_inv, with_reflection_at, swirl and swirl_hom
\* pull every element of the groups handed to them when they are made, self
\* first, and abort there on the first element whose evaluation aborts.
CollectingMaterializes ==
    /\ (last.op \in {"rotations", "step_hom"}) =>
          /\ drawn = 0
          /\ ~panicked
          /\ Len(group.iter) <= Len(last.self.iter)
          /\ HasPoison(last.self.iter) => HasPoison(group.iter)
    /\ (last.op \in {"cache", "permutations", "pad", "direct_product",
                     "matrix_product", "with_central_inv",
                     "with_reflection_at", "swirl", "swirl_hom"}) =>
          LET all == Len(last.self.iter)
                        + (IF IsBound(last.g) THEN Len(last.g.iter) ELSE 0)
          IN  IF panicked
              THEN \/ drawn = 0 /\ last.op \notin {"cache", "permutations",
                                                  "pad", "direct_product",
                                                  "matrix_product"}
                   \/ /\ drawn \in 1..all
                      /\ IsPoison(PulledAt(last, drawn))
                      /\ \A d \in 1..(drawn - 1) : ~IsPoison(PulledAt(last, d))
              ELSE /\ drawn = all
                   /\ ~HasPoison(last.self.iter)
                   /\ IsBound(last.g) => ~HasPoison(last.g.iter)

CollectingMaterializesWitness ==
    /\ last.op = "matrix_product"
    /\ ~panicked
    /\ pc = "combined"
    /\ IsBound(last.g)
    /\ drawn = Len(last.self.iter) + Len(last.g.iter)
    /\ drawn >= 4

---------------------------------------------------------------------------
\* The generator of the last call on cyclic_gen or cyclic.
LastGen ==
    IF last.op = "cyclic_gen" THEN CyclicGens[last.k]
    ELSE << <<fsin_cos(last.k)[2], 0 - fsin_cos(last.k)[1]>>,
            <<fsin_cos(last.k)[1], fsin_cos(last.k)[2]>> >>

\* C18, as stated: the sequence of cyclic_gen is id, g, g * g, ... and is not
\* ended by a return to the identity: it runs for as long as it is followed.
CyclicNeverEnds ==
    (last.op \in {"cyclic_gen", "cyclic"}) =>
        /\ Len(group.iter) = CyclicCap + 1
        /\ \A p \in 1..Len(group.iter) : group.iter[p] = pow(LastGen, p - 1)

\* C18, amended: the sequence of cyclic_gen is id, g, g * g, ..., its k-th
\* element the k-fold product of g, and it ends before the first product
\* that is the identity again: a generator of order n yields n elements,
\* and only one that never returns to the identity runs on.
CyclicEndsAtIdentity ==
    (last.op \in {"cyclic_gen", "cyclic"}) =>
        LET els == group.iter
            id == identity(Len(LastGen))
        IN  /\ ~panicked
            /\ Len(els) >= 1
            /\ \A p \in 1..Len(els) : els[p] = pow(LastGen, p - 1)
            /\ \A p \in 2..Len(els) : els[p] # id
            /\ Len(els) <= CyclicCap => mul(els[Len(els)], LastGen) = id
            /\ (\A d \in 1..(CyclicCap + 1) : pow(LastGen, d) # id)
                  => Len(els) = CyclicCap + 1
            /\ last.op = "cyclic" => Len(els) = last.k

CyclicEndsAtIdentityWitness ==
    /\ last.op = "cyclic_gen"
    /\ last.k = 2
    /\ pc = "built"
    /\ Len(group.iter) = 4
    /\ mul(group.iter[4], CyclicGens[2]) = identity(2)

---------------------------------------------------------------------------
\* A clone holds what the group it was cloned from holds.
CloneCopies ==
    (last.op = "clone") =>
        /\ other = group
        /\ last.self = group
        /\ seenOther = <<>>

\* A step that pulls from one of the two groups leaves the other as it was;
\* and the step that iterates the clone to its end leaves the group with
\* every element it had.
PullsOne ==
    /\ (IsBound(other) /\ IsBound(other') /\ other' # other) =>
          group' = group /\ seen' = seen
    /\ (IsBound(group) /\ IsBound(other) /\ last'.op \in {"next", "count"}
            /\ group' # group) =>
          other' = other /\ seenOther' = seenOther
    /\ (IsBound(other) /\ other.iter # <<>> /\ last'.op = "count"
            /\ ~panicked' /\ other'.dim = other.dim /\ other'.iter = <<>>) =>
          /\ seenOther' = seenOther \o other.iter
          /\ group'.iter = group.iter

\* C19: no two groups share a sequence: pulling from a group, a clone of
\* another included, never changes what another group yields afterwards, and
\* after a clone is iterated to its end the group it was cloned from still
\* yields all its elements.
ClonesApart == []CloneCopies /\ [][PullsOne]_vars

ClonesApartWitness ==
    /\ pc = "built"
    /\ last.op = "count"
    /\ IsBound(other)
    /\ other.iter = <<>>
    /\ Len(seenOther) >= 2
    /\ seen = <<>>
    /\ group.iter = seenOther

---------------------------------------------------------------------------
\* The call aborted on a check of what it was given, before it pulled an
\* element.
AbortedOnCheck == panicked /\ drawn = 0

\* C20, as stated: no combinator aborts on a check of its arguments.
NoRuntimeVerification ==
    (last.op \in {"cache", "pad", "rotations", "direct_product",
                  "matrix_product", "with_central_inv", "with_reflection_at",
                  "swirl", "swirl_hom", "step_hom"}) =>
        ~AbortedOnCheck

\* C20, amended: iso and sub (rotations, step_hom) always return a group;
\* cache, pad, direct_product and matrix_product return a group of the
\* dimension their arguments give, whatever the arguments, and abort only on
\* an element they pull whose evaluation aborts; swirl and swirl_hom abort
\* on their assertion unless both groups have dimension 3, with_central_inv
\* aborts on a group of dimension 0, and with_reflection_at aborts unless
\* idx is less than the dimension.
ChecksOnlyAsserted ==
    /\ (last.op \in {"rotations", "step_hom"}) =>
          /\ ~panicked
          /\ IsBound(group)
          /\ group.dim = IF last.op = "rotations" THEN last.self.dim
                         ELSE 2 * last.self.dim
    /\ (last.op \in {"cache", "pad", "direct_product", "matrix_product"}) =>
          IF panicked
          THEN drawn >= 1 /\ IsPoison(PulledAt(last, drawn))
          ELSE /\ IsBound(group)
               /\ group.dim =
                     CASE last.op = "pad" -> last.self.dim + last.k
                       [] last.op = "direct_product" ->
                             last.self.dim + last.g.dim
                       [] OTHER -> last.self.dim
    /\ (last.op \in {"swirl", "swirl_hom"}) =>
          /\ AbortedOnCheck <=> (last.self.dim # 3 \/ last.g.dim # 3)
          /\ ~panicked => group.dim = 4
    /\ (last.op = "with_central_inv") =>
          /\ AbortedOnCheck <=> (last.self.dim < 1)
          /\ ~panicked => group.dim = last.self.dim
    /\ (last.op = "with_reflection_at") =>
          /\ AbortedOnCheck <=> (last.self.dim < 1 \/ last.k >= last.self.dim)
          /\ ~panicked => group.dim = last.self.dim

ChecksOnlyAssertedWitness ==
    /\ last.op = "swirl_hom"
    /\ last.self.dim = 3
    /\ last.g.dim = 2
    /\ last.self.iter # <<>>
    /\ AbortedOnCheck

---------------------------------------------------------------------------
\* The elements of s are distinct, the first is the identity, and the
\* product of any two is one of them.
IsGroup(s) ==
    /\ Len(s) >= 1
    /\ s[1] = identity(Len(s[1]))
    /\ \A p, q \in 1..Len(s) : s[p] = s[q] => p = q
    /\ \A p, q \in 1..Len(s) : \E r \in 1..Len(s) : mul(s[p], s[q]) = s[r]

---------------------------------------------------------------------------
(* C22: reciprocate_mut(p) returns Err and leaves p as it was exactly when *)
(* the squared distance s of p to the center is below EPS; otherwise it    *)
(* returns Ok and p becomes the point q with                               *)
(* (q - center) * s = (p - center) * squared_radius.  reciprocate(p)       *)
(* leaves p as it was, returns None exactly when s < EPS and otherwise     *)
(* Some of that point q.                                                   *)

\* q is the inverse of p in the sphere: (q - c) * s = (p - c) * r2, where s
\* is the squared distance of p to c.
Inverse(self, p, q) ==
    LET s == norm_squared(VSub(p, self.center))
    IN  /\ Len(q) = Len(p)
        /\ \A i \in 1..Len(p) :
               FMul(FSub(q[i], self.center[i]), s)
                   = FMul(FSub(p[i], self.center[i]), self.squared_radius)

TooClose(self, p) == FLess(norm_squared(VSub(p, self.center)), EPS)

ReciprocateErr ==
    /\ (ret # NoValue /\ ret.op = "reciprocate_mut" /\ ~panicked)
           => /\ ret.res = "Err" <=> TooClose(hypersphere, ret.p)
              /\ ret.res = "Err" => point = ret.p
              /\ ret.res # "Err"
                     => /\ ret.res = "Ok"
                        /\ Inverse(hypersphere, ret.p, point)
    /\ (ret # NoValue /\ ret.op = "reciprocate" /\ ~panicked)
           => /\ point = ret.p
              /\ ~ret.res.some <=> TooClose(hypersphere, ret.p)
              /\ ret.res.some => Inverse(hypersphere, ret.p, ret.res.p)

\* A point off the center, closer to it than the threshold, was refused.
ReciprocateErrWitness ==
    /\ ret # NoValue
    /\ ret.op = "reciprocate_mut"
    /\ ~panicked
    /\ ret.res = "Err"
    /\ point # hypersphere.center
    /\ hypersphere.center # <<F0, F0, F0>>


---------------------------------------------------------------------------
(* C23: after any sequence of Subspace::new, add and from_points, the      *)
(* basis consists of pairwise orthogonal unit vectors and rank() <= dim(). *)
(* add appends a vector and returns Some of it exactly when the norm of    *)
(* the residual p - project(p) is above EPS; otherwise it returns None and *)
(* leaves the subspace as it was.                                          *)

Orthonormal(basis) ==
    \A i, j \in 1..Len(basis) :
        VDot(basis[i], basis[j]) = IF i = j THEN F1 ELSE F0

\* v is c times w for some c > 0: their dot product is positive and its
\* square is the product of the squared norms.
SameDirection(v, w) ==
    /\ FLess(F0, VDot(v, w))
    /\ FMul(VDot(v, w), VDot(v, w)) = FMul(norm_squared(v), norm_squared(w))

OrthonormalBasis ==
    /\ (subspace # NoValue)
           => /\ Orthonormal(subspace.basis)
              /\ subspace_rank(subspace) <= subspace_dim(subspace)
    /\ (ret # NoValue /\ ret.op = "add" /\ ~panicked)
           => LET residual == VSub(ret.p, project(ret.h, ret.p))
              IN  /\ ret.some <=> NormAbove(residual, EPS)
                  /\ ret.some
                         => /\ subspace.offset = ret.h.offset
                            /\ subspace.basis = Append(ret.h.basis, ret.v)
                            /\ SameDirection(ret.v, residual)
                  /\ ~ret.some => subspace = ret.h

\* A third vector was appended for a point that was not orthogonal to the
\* first.
OrthonormalBasisWitness ==
    /\ ret # NoValue
    /\ ret.op = "add"
    /\ ~panicked
    /\ ret.some
    /\ subspace_rank(subspace) = 3
    /\ VDot(VSub(ret.p, subspace.offset), subspace.basis[1]) # F0


---------------------------------------------------------------------------
(* C24: a combinator keeps the exhaustion state of the group it is applied *)
(* to.  Each next() on a group that is not exhausted moves its first       *)
(* remaining element to the pulled ones; a combinator is applied to the    *)
(* remaining elements only: cache() then holds exactly the remaining       *)
(* elements in order, pad() as many elements as remain, and a combinator   *)
(* applied to an exhausted group yields an empty sequence.                 *)

CombinatorCalls ==
    {"cache", "pad", "rotations", "step_hom", "with_central_inv",
     "with_reflection_at", "matrix_product", "direct_product", "swirl",
     "swirl_hom", "permutations"}

\* A step that pulls one element of a group that has one.
PullStep ==
    /\ last' # last
    /\ last'.op = "next"
    /\ ~panicked'
    /\ group.iter # <<>>

\* A step that applies a combinator to the group of the program.
CombinatorStep ==
    /\ pc # "start"
    /\ last' # last
    /\ last'.op \in CombinatorCalls
    /\ ~panicked'

AppliedToRemaining ==
    /\ PullStep => /\ seen' = Append(seen, Head(group.iter))
                   /\ group'.iter = Tail(group.iter)
                   /\ seen' \o group'.iter = seen \o group.iter
    /\ CombinatorStep
           => /\ last'.self = group
              /\ last'.op = "cache" => group'.iter = group.iter
              /\ last'.op = "pad" => Len(group'.iter) = Len(group.iter)
              /\ group.iter = <<>> => group'.iter = <<>>

ExhaustionKept == [][AppliedToRemaining]_vars

\* cache() was applied after two pulls and holds the two elements that
\* remained, neither of which is one of those pulled.
ExhaustionKeptWitness ==
    /\ last.op = "cache"
    /\ ~panicked
    /\ pulls = 2
    /\ Len(last.self.iter) = 2
    /\ group.iter = last.self.iter
    /\ group.dim >= 2
    /\ group.iter[1] # group.iter[2]


---------------------------------------------------------------------------
(* C25: a group built by trivial, cyclic, central_inv, reflection_at,      *)
(* dihedral_2 or dihedral_3 stores the number of rows and of columns of    *)
(* each matrix it yields, and cache, rotations, pad, direct_product,       *)
(* with_central_inv, with_reflection_at, swirl and step_hom return such a  *)
(* group when applied to such groups.  matrix_product stores the dimension *)
(* of the first group whatever that of the second: its result is such a    *)
(* group when both operands are and have the same dimension; when their    *)
(* dimensions differ it yields no matrix, each product aborting.           *)

\* Every matrix the group yields has as many rows and columns as the
\* group's dimension.
DimOfMatrices(g) ==
    \A p \in 1..Len(g.iter) :
        ~IsPoison(g.iter[p])
            => /\ nrows(g.iter[p]) = g.dim
               /\ \A i \in 1..g.dim : Len(g.iter[p][i]) = g.dim

DimConstructors ==
    {"trivial", "cyclic", "central_inv", "reflection_at", "dihedral_2",
     "dihedral_3"}

DimCombinators ==
    {"cache", "rotations", "pad", "direct_product", "with_central_inv",
     "with_reflection_at", "swirl", "step_hom"}

\* The operands of the call that the step makes have the property.
DimOfOperands ==
    /\ DimOfMatrices(last'.self)
    /\ IsBound(last'.g) => DimOfMatrices(last'.g)

DimStep ==
    /\ (last' # last /\ ~panicked' /\ last'.op \in DimConstructors)
           => DimOfMatrices(group')
    /\ (last' # last /\ ~panicked' /\ last'.op \in DimCombinators
            /\ DimOfOperands)
           => DimOfMatrices(group')
    /\ (last' # last /\ ~panicked' /\ last'.op = "matrix_product")
           => /\ group'.dim = last'.self.dim
              /\ (DimOfOperands /\ last'.self.dim = last'.g.dim)
                     => DimOfMatrices(group')
              /\ (DimOfOperands /\ last'.self.dim # last'.g.dim)
                     => \A p \in 1..Len(group'.iter) :
                            IsPoison(group'.iter[p])

DimStored == [][DimStep]_vars

\* The matrix product of cyclic(4) and central_inv(2): eight matrices of two
\* rows and two columns.
DimStoredWitness ==
    /\ last.op = "matrix_product"
    /\ ~panicked
    /\ last.self = cyclic(4)
    /\ last.g = central_inv(2)
    /\ group.dim = 2
    /\ Len(group.iter) = 8
    /\ ~HasPoison(group.iter)
    /\ DimOfMatrices(group)
    /\ group.iter[1] # group.iter[2]


---------------------------------------------------------------------------
(* C26: approx is symmetric, a.approx(b) = b.approx(a), and holds only     *)
(* when the centers are closer than EPS and the squared radii differ by    *)
(* less than EPS in absolute value.                                        *)

FAbs(x) == <<Abs(x[1]), x[2]>>

ApproxSymmetric ==
    (ret # NoValue /\ ret.op = "approx" /\ ~panicked)
        => /\ ret.res = approx(ret.sphere, hypersphere)
           /\ ret.res
                  => /\ NormBelow(VSub(hypersphere.center, ret.sphere.center),
                                  EPS)
                     /\ FLess(FAbs(FSub(hypersphere.squared_radius,
                                        ret.sphere.squared_radius)), EPS)


---------------------------------------------------------------------------
(* C27: the 12 edges of cube() are 12 distinct unordered pairs of vertex   *)
(* indices in 0..7, every vertex is an endpoint of exactly 3 edges, the 4  *)
(* edge indices of every face are in 0..11, and the element counts are     *)
(* [8, 12, 6, 1].                                                          *)

\* The edges of the polytope that end at vertex v.
EdgesAt(poly, v) ==
    {e \in 1..Len(poly.elements[1]) :
        v = poly.elements[1][e][1] \/ v = poly.elements[1][e][2]}

CubeEdges ==
    (polytope # NoValue)
        => LET edges == polytope.elements[1]
               faces == polytope.elements[2]
           IN  /\ el_counts(polytope) = <<8, 12, 6, 1>>
               /\ \A e \in 1..Len(edges) :
                      /\ Len(edges[e]) = 2
                      /\ edges[e][1] \in 0..7
                      /\ edges[e][2] \in 0..7
                      /\ edges[e][1] # edges[e][2]
               /\ Cardinality({{edges[e][1], edges[e][2]} :
                                   e \in 1..Len(edges)}) = 12
               /\ \A v \in 0..7 : Cardinality(EdgesAt(polytope, v)) = 3
               /\ \A f \in 1..Len(faces) :
                      /\ Len(faces[f]) = 4
                      /\ \A i \in 1..4 : faces[f][i] \in 0..11

====
